---- MODULE Spec2Model ----
(***************************************************************************)
(* Model of the locutus-node transaction registry (node/op_state.rs) and   *)
(* of the in-memory connection manager (conn_manager/in_memory.rs).        *)
(*                                                                         *)
(* Spec       : the registry, driven by arbitrary push and pop calls.      *)
(* FabricSpec    : the in-memory fabric, peers sending and receiving.      *)
(* ClosingFabric : the fabric with a channel that can be disconnected.     *)
(* FairFabric    : the fabric with every polling task scheduled fairly.    *)
(***************************************************************************)
EXTENDS Integers, Sequences, FiniteSets, TLC

(* ------------------------------ bounds --------------------------------- *)

\* number of Transactions the callers draw their ids from
NumTx == 5
\* number of Operation instances the callers construct
MaxOps == 2
\* number of peers (MemoryConnManager instances) sharing the fabric
NumPeers == 3
\* number of envelopes the peers put on the fabric
MaxSends == 2
\* number of sends whose poll intervals are counted
MaxTimed == 1

(* ========================= transaction registry ======================== *)

VARIABLES
    join_ring,   \* OpStateStorage.join_ring : Transaction -> JoinRingOp
    put,         \* OpStateStorage.put       : Transaction -> PutOp
    get,         \* OpStateStorage.get       : Transaction -> GetOp
    nextOp,      \* the next Operation instance a caller constructs
    res,         \* the last call on the registry and what it returned
    prev,        \* the call before it
    live,        \* ids pushed with Ok and not popped since (history)
    yieldCount   \* per Operation instance, how often pop returned it (history)

regVars == <<join_ring, put, get, nextOp, res, prev, live, yieldCount>>

VARIABLES
    network,          \* NETWORK_WIRES: the envelopes on the shared channel
    netClosed,        \* the shared channel reports Disconnected
    msg_stack_queue,  \* per peer, InMemoryTransport.msg_stack_queue
    msg_queue,        \* per peer, MemoryConnManager.msg_queue
    filterPc,         \* per peer, where the task of InMemoryTransport::new is
    filterMsg,        \* per peer, the envelope that task took and has to push
    relayPc,          \* per peer, where the task of MemoryConnManager::new is
    relayMsg,         \* per peer, the envelope that task popped
    recvPc,           \* per peer, where the pending recv() call is
    received,         \* per peer, the Messages recv() returned, in order
    sent,             \* the sends that reached the transport (history)
    sendRes           \* the last send call and what it returned

fabVars == <<network, netClosed, msg_stack_queue, msg_queue, filterPc,
             filterMsg, relayPc, relayMsg, recvPc, received, sent, sendRes>>

\* the poll intervals of the 10 ms loops: the polling tasks that have reached
\* their sleep in the current interval, and for each send the number of
\* intervals its message has been under way
VARIABLES asleep, age

timeVars == <<asleep, age>>

vars == <<regVars, fabVars, timeVars>>

\* the two callers that pop from the registry
Callers == {"first", "second"}

\* TransactionTypeId
TxKinds == {"JoinRing", "Put", "Get", "Canceled"}

\* the variants of Operation
OpVariants == {"JoinRing", "Put", "Get"}

KindSeq == <<"JoinRing", "Put", "Get", "Canceled">>

\* the kind a Transaction is created with; it never changes
KindOfId(i) == KindSeq[((i - 1) % Len(KindSeq)) + 1]

Transactions == {[id |-> i, kind |-> KindOfId(i)] : i \in 1..NumTx}

\* Transaction::tx_type
tx_type(id) == id.kind

Operations == [variant : OpVariants, inst : 1..MaxOps]

NoOperation == [variant |-> "-", inst |-> 0]
NoTx == [id |-> 0, kind |-> "-"]

\* HashMap::default()
EmptyMap == [t \in {} |-> 0]

\* an insert that rebuilds the map from the new entry alone
InsertAlone(m, id, v) == [t \in {id} |-> v]

\* HashMap::insert: a prior entry under the same key is replaced
Insert(m, id, v) == [t \in DOMAIN m \cup {id} |-> IF t = id THEN v ELSE m[t]]

\* a lookup that clones the entry and leaves it in the map
RemoveKeepsEntry(m, id) == m

\* HashMap::remove, the map it leaves
Remove(m, id) == [t \in DOMAIN m \ {id} |-> m[t]]

\* HashMap::remove(id).map(variant), the value it returns
Removed(m, id, variant) ==
    IF id \in DOMAIN m
    THEN [tag |-> "Some", op |-> [variant |-> variant, inst |-> m[id]],
          expected |-> "-", actual |-> "-"]
    ELSE [tag |-> "None", op |-> NoOperation, expected |-> "-", actual |-> "-"]

RetOk == [tag |-> "Ok", op |-> NoOperation, expected |-> "-", actual |-> "-"]
RetPanic == [tag |-> "Panic", op |-> NoOperation, expected |-> "-", actual |-> "-"]
RetNone == [tag |-> "None", op |-> NoOperation, expected |-> "-", actual |-> "-"]

\* OpExecutionError::IncorrectTxType(expected, actual)
IncorrectTxType(expected, actual) ==
    [tag |-> "IncorrectTxType", op |-> NoOperation,
     expected |-> expected, actual |-> actual]

\* check_id_op!(get_ty, var): the error it returns early with, or Ok to go on
check_id_op(get_ty, var) ==
    IF get_ty # var THEN IncorrectTxType("JoinRing", get_ty) ELSE RetOk

\* the TransactionTypeId each arm of push hands to check_id_op!
PushCheckedKind(variant) ==
    CASE variant = "JoinRing" -> "JoinRing"
      [] variant = "Put" -> "Put"
      [] variant = "Get" -> "Put"

\* what push(id, op) returns
PushResult(id, op) == check_id_op(tx_type(id), PushCheckedKind(op.variant))

\* the Operations the registry holds under id, in any of its maps
StoredFor(id) ==
    {[variant |-> "JoinRing", inst |-> join_ring[t]] : t \in DOMAIN join_ring \cap {id}}
    \cup {[variant |-> "Put", inst |-> put[t]] : t \in DOMAIN put \cap {id}}
    \cup {[variant |-> "Get", inst |-> get[t]] : t \in DOMAIN get \cap {id}}

NoCall == [call |-> "none", caller |-> "-", id |-> NoTx, op |-> NoOperation,
           ret |-> RetNone, before |-> {}, wasLive |-> FALSE]

\* OpStateStorage::new
RegInit ==
    /\ join_ring = EmptyMap
    /\ put = EmptyMap
    /\ get = EmptyMap
    /\ nextOp = 1
    /\ res = NoCall
    /\ prev = NoCall
    /\ live = {}
    /\ yieldCount = [i \in 1..MaxOps |-> 0]

\* OpStateStorage::push(id, op), op a freshly constructed Operation
Push(id, variant) ==
    /\ nextOp <= MaxOps
    /\ LET op == [variant |-> variant, inst |-> nextOp]
           ret == PushResult(id, op)
       IN /\ nextOp' = nextOp + 1
          /\ res' = [call |-> "push", caller |-> "-", id |-> id, op |-> op,
                     ret |-> ret, before |-> StoredFor(id),
                     wasLive |-> id \in live]
          /\ prev' = res
          /\ IF ret.tag = "Ok"
             THEN /\ join_ring' = IF variant = "JoinRing"
                                  THEN Insert(join_ring, id, op.inst) ELSE join_ring
                  /\ put' = IF variant = "Put"
                            THEN Insert(put, id, op.inst) ELSE put
                  /\ get' = IF variant = "Get"
                            THEN Insert(get, id, op.inst) ELSE get
                  /\ live' = live \cup {id}
             ELSE UNCHANGED <<join_ring, put, get, live>>
          /\ UNCHANGED yieldCount
    /\ UNCHANGED fabVars

\* the three per-kind maps of the registry
Registry == [join_ring |-> join_ring, put |-> put, get |-> get]

\* a pop whose Canceled arm resolves to nothing instead of aborting
pop_ret_canceled_none(reg, id) ==
    CASE tx_type(id) = "JoinRing" -> Removed(reg.join_ring, id, "JoinRing")
      [] tx_type(id) = "Put" -> Removed(reg.put, id, "Put")
      [] tx_type(id) = "Get" -> Removed(reg.get, id, "Get")
      [] tx_type(id) = "Canceled" -> RetNone

\* what pop(id) returns on the maps reg
pop_ret(reg, id) ==
    CASE tx_type(id) = "JoinRing" -> Removed(reg.join_ring, id, "JoinRing")
      [] tx_type(id) = "Put" -> Removed(reg.put, id, "Put")
      [] tx_type(id) = "Get" -> Removed(reg.get, id, "Get")
      [] tx_type(id) = "Canceled" -> RetPanic

\* the maps pop(id) leaves behind
pop_reg(reg, id) ==
    CASE tx_type(id) = "JoinRing" -> [reg EXCEPT !.join_ring = Remove(@, id)]
      [] tx_type(id) = "Put" -> [reg EXCEPT !.put = Remove(@, id)]
      [] tx_type(id) = "Get" -> [reg EXCEPT !.get = Remove(@, id)]
      [] tx_type(id) = "Canceled" -> reg

\* OpStateStorage::pop(id) by one caller; &mut self makes the call exclusive
Pop(c, id) ==
    LET ret == pop_ret(Registry, id)
        after == pop_reg(Registry, id)
    IN /\ res' = [call |-> "pop", caller |-> c, id |-> id, op |-> NoOperation,
                  ret |-> ret, before |-> StoredFor(id), wasLive |-> id \in live]
       /\ prev' = res
       /\ join_ring' = after.join_ring
       /\ put' = after.put
       /\ get' = after.get
       /\ live' = IF ret.tag = "Panic" THEN live ELSE live \ {id}
       /\ yieldCount' = IF ret.tag = "Some"
                        THEN [yieldCount EXCEPT ![ret.op.inst] = @ + 1]
                        ELSE yieldCount
       /\ UNCHANGED nextOp
       /\ UNCHANGED fabVars

(* ========================== in-memory fabric =========================== *)

\* PeerKey
Peers == 1..NumPeers

\* Option<Location>
NoLocation == "None"
Locations == {"L"}

\* PeerKeyLocation
PeerKeyLocations == [peer : Peers, location : Locations \cup {NoLocation}]

\* the peers that call send; the origin of an envelope is carried and
\* logged, and read by no task
Senders == {p \in Peers : p = 1}

\* the Transaction the k-th Message put on the fabric belongs to
MsgTransactions(k) == {t \in Transactions : t.id = ((k - 1) % NumTx) + 1}

\* Message
Messages == [transaction : Transactions, payload : 1..MaxSends]

\* the position of a TransactionTypeId among the variants of the enum
KindIndex(k) == CHOOSE i \in DOMAIN KindSeq : KindSeq[i] = k

\* bincode::serialize(&msg)
serialize(msg) ==
    <<msg.transaction.id, KindIndex(msg.transaction.kind), msg.payload>>

\* bincode::deserialize_from(Cursor::new(data))
deserialize(data) ==
    [transaction |-> [id |-> data[1], kind |-> KindSeq[data[2]]],
     payload |-> data[3]]

\* MessageOnTransit
MessageOnTransit(origin, location, target, data) ==
    [origin |-> origin, origin_loc |-> location, target |-> target, data |-> data]

NoEnvelope == MessageOnTransit(0, NoLocation, 0, <<>>)

\* Vec::push
VecPush(v, x) == Append(v, x)

\* Vec::pop, the element it returns (the last one)
VecLast(v) == v[Len(v)]

\* the elements of a sequence
Elems(q) == {q[i] : i \in DOMAIN q}

\* a pop that hands out the last element and leaves it in place
VecPopKeeps(v) == v

\* Vec::pop, the vector it leaves
VecPop(v) == SubSeq(v, 1, Len(v) - 1)

\* a send that hands the transport a default for a missing location
LocationDefaulted(target) == TRUE

\* target.location.ok_or(ConnError::LocationUnknown)?: whether send goes on
\* to the transport
LocationKnown(target) == target.location # NoLocation

\* Sender::try_send on the unbounded channel
try_send(closed) == IF closed THEN "Disconnected" ELSE "Ok"

\* Receiver::try_recv on the shared channel
try_recv(chan, closed) ==
    IF chan # <<>> THEN "Ok"
    ELSE IF closed THEN "Disconnected" ELSE "Empty"

\* a first arm without its guard: every envelope taken is kept
FilterKeepsAny(p, env) == TRUE

\* the guard of the first arm of the filter task: msg.target == interface_peer
FilterKeeps(p, env) == env.target = p

\* a channel that puts the envelope it hands out back at its end
Requeue(chan) == Append(Tail(chan), Head(chan))

\* the shared channel after rx.try_recv() returned Ok(msg): msg is removed
Taken(chan) == Tail(chan)

\* a loop that also ends when the channel is merely empty
FilterStopsOnEmpty(r) == r \in {"Disconnected", "Empty"}

\* the arm of the filter task that breaks out of the loop
FilterStops(r) == r = "Disconnected"

\* whether the mutex of msg_stack_queue of peer p is held
StackLocked(p) == filterPc[p] = "locked"

\* whether the mutex of msg_queue of peer p is held
QueueLocked(p) == recvPc[p] = "locked"

NoSend == [ret |-> "none", wire |-> "-", enqueued |-> FALSE]

\* MemoryConnManager::new for every peer, on one fresh fabric
FabInit ==
    /\ network = <<>>
    /\ netClosed = FALSE
    /\ msg_stack_queue = [p \in Peers |-> <<>>]
    /\ msg_queue = [p \in Peers |-> <<>>]
    /\ filterPc = [p \in Peers |-> "poll"]
    /\ filterMsg = [p \in Peers |-> NoEnvelope]
    /\ relayPc = [p \in Peers |-> "poll"]
    /\ relayMsg = [p \in Peers |-> NoEnvelope]
    /\ recvPc = [p \in Peers |-> "poll"]
    /\ received = [p \in Peers |-> <<>>]
    /\ sent = <<>>
    /\ sendRes = NoSend

\* MemoryConnManager::send(target, msg) by peer x, with InMemoryTransport::send
Send(x, target, tx) ==
    /\ Len(sent) < MaxSends
    /\ LET msg == [transaction |-> tx, payload |-> Len(sent) + 1]
           data == serialize(msg)
           env == MessageOnTransit(x, target.location, target.peer, data)
       IN IF ~LocationKnown(target)
          THEN /\ sendRes' = [ret |-> "LocationUnknown", wire |-> "-",
                              enqueued |-> FALSE]
               /\ UNCHANGED <<network, sent>>
          ELSE /\ network' = IF try_send(netClosed) = "Ok"
                             THEN Append(network, env) ELSE network
               /\ sent' = Append(sent, [target |-> target.peer, msg |-> msg])
               /\ sendRes' = [ret |-> IF try_send(netClosed) = "Full"
                                      THEN "Panic" ELSE "Ok",
                              wire |-> try_send(netClosed),
                              enqueued |-> try_send(netClosed) = "Ok"]
    /\ UNCHANGED <<netClosed, msg_stack_queue, msg_queue, filterPc, filterMsg,
                   relayPc, relayMsg, recvPc, received>>
    /\ UNCHANGED regVars

\* the shared channel is closed for good
Disconnect ==
    /\ ~netClosed
    /\ netClosed' = TRUE
    /\ UNCHANGED <<network, msg_stack_queue, msg_queue, filterPc, filterMsg,
                   relayPc, relayMsg, recvPc, received, sent, sendRes>>
    /\ UNCHANGED regVars

\* filter task of peer p: one rx.try_recv() and the arm it selects
FilterPoll(p) ==
    /\ filterPc[p] = "poll"
    /\ LET r == try_recv(network, netClosed)
       IN IF r = "Ok"
          THEN /\ network' = Taken(network)
               /\ IF FilterKeeps(p, Head(network))
                  THEN /\ filterPc' = [filterPc EXCEPT ![p] = "push"]
                       /\ filterMsg' = [filterMsg EXCEPT ![p] = Head(network)]
                  ELSE UNCHANGED <<filterPc, filterMsg>>
          ELSE /\ FilterStops(r)
               /\ filterPc' = [filterPc EXCEPT ![p] = "stopped"]
               /\ UNCHANGED <<network, filterMsg>>
    /\ UNCHANGED <<netClosed, msg_stack_queue, msg_queue, relayPc, relayMsg,
                   recvPc, received, sent, sendRes>>
    /\ UNCHANGED regVars

\* filter task of peer p: rcv_msg_c.lock(), which waits for the mutex
FilterLock(p) ==
    /\ filterPc[p] = "push"
    /\ ~StackLocked(p)
    /\ filterPc' = [filterPc EXCEPT ![p] = "locked"]
    /\ UNCHANGED <<network, netClosed, msg_stack_queue, msg_queue, filterMsg,
                   relayPc, relayMsg, recvPc, received, sent, sendRes>>
    /\ UNCHANGED regVars

\* filter task of peer p: .push(msg) and the release of the mutex
FilterPush(p) ==
    /\ filterPc[p] = "locked"
    /\ msg_stack_queue' = [msg_stack_queue EXCEPT ![p] = VecPush(@, filterMsg[p])]
    /\ filterMsg' = [filterMsg EXCEPT ![p] = NoEnvelope]
    /\ filterPc' = [filterPc EXCEPT ![p] = "poll"]
    /\ UNCHANGED <<network, netClosed, msg_queue, relayPc, relayMsg, recvPc,
                   received, sent, sendRes>>
    /\ UNCHANGED regVars

\* relay task of peer p: { tr_cp.msg_stack_queue.lock().pop() }, which waits
\* for the mutex, pops and releases it
RelayPop(p) ==
    /\ relayPc[p] = "poll"
    /\ ~StackLocked(p)
    /\ msg_stack_queue[p] # <<>>
    /\ relayMsg' = [relayMsg EXCEPT ![p] = VecLast(msg_stack_queue[p])]
    /\ msg_stack_queue' = [msg_stack_queue EXCEPT ![p] = VecPop(@)]
    /\ relayPc' = [relayPc EXCEPT ![p] = "have"]
    /\ UNCHANGED <<network, netClosed, msg_queue, filterPc, filterMsg, recvPc,
                   received, sent, sendRes>>
    /\ UNCHANGED regVars

\* relay task of peer p: deserialize, msg_queue_cp.try_lock(), queue.push
RelayForward(p) ==
    /\ relayPc[p] = "have"
    /\ msg_queue' = IF ~QueueLocked(p)
                    THEN [msg_queue EXCEPT ![p] = VecPush(@, deserialize(relayMsg[p].data))]
                    ELSE msg_queue
    /\ relayMsg' = [relayMsg EXCEPT ![p] = NoEnvelope]
    /\ relayPc' = [relayPc EXCEPT ![p] = "poll"]
    /\ UNCHANGED <<network, netClosed, msg_stack_queue, filterPc, filterMsg,
                   recvPc, received, sent, sendRes>>
    /\ UNCHANGED regVars

\* recv() on peer p: self.msg_queue.try_lock() succeeds
RecvTryLock(p) ==
    /\ recvPc[p] = "poll"
    /\ ~QueueLocked(p)
    /\ recvPc' = [recvPc EXCEPT ![p] = "locked"]
    /\ UNCHANGED <<network, netClosed, msg_stack_queue, msg_queue, filterPc,
                   filterMsg, relayPc, relayMsg, received, sent, sendRes>>
    /\ UNCHANGED regVars

\* recv() on peer p: queue.pop(), return Ok(msg) or drop the guard and sleep
RecvPop(p) ==
    /\ recvPc[p] = "locked"
    /\ IF msg_queue[p] # <<>>
       THEN /\ received' = [received EXCEPT ![p] = Append(@, VecLast(msg_queue[p]))]
            /\ msg_queue' = [msg_queue EXCEPT ![p] = VecPop(@)]
       ELSE UNCHANGED <<received, msg_queue>>
    /\ recvPc' = [recvPc EXCEPT ![p] = "poll"]
    /\ UNCHANGED <<network, netClosed, msg_stack_queue, filterPc, filterMsg,
                   relayPc, relayMsg, sent, sendRes>>
    /\ UNCHANGED regVars

SendStep ==
    \E x \in Senders, target \in PeerKeyLocations :
        \E tx \in MsgTransactions(Len(sent) + 1) : Send(x, target, tx)

FilterStep(p) == FilterPoll(p) \/ FilterLock(p) \/ FilterPush(p)

RelayStep(p) == RelayPop(p) \/ RelayForward(p)

RecvStep(p) == RecvTryLock(p) \/ RecvPop(p)

(* ============================ poll intervals =========================== *)

\* the polling loops: the filter task, the relay task and the pending recv()
\* of every peer
Tasks == {"filter", "relay", "recv"} \X Peers

TimeInit ==
    /\ asleep = {}
    /\ age = <<>>

\* tokio::time::sleep(Duration::from_millis(10)) of task t
Sleep(t) == asleep' = asleep \cup {t}

\* whether recv() on the target has returned the message of send number k
Delivered(k) == sent[k].msg \in Elems(received[sent[k].target])

\* send(), which starts the clock of its message
TimedSend ==
    /\ Len(age) < MaxTimed
    /\ SendStep
    /\ age' = IF Len(sent') > Len(sent) THEN Append(age, 0) ELSE age
    /\ UNCHANGED asleep

\* filter task of peer p: the arm Err(Empty), which only sleeps
FilterIdle(p) ==
    /\ filterPc[p] = "poll"
    /\ try_recv(network, netClosed) = "Empty"
    /\ UNCHANGED <<regVars, fabVars>>

\* relay task of peer p: msg_stack_queue.lock().pop() returns None
RelayIdle(p) ==
    /\ relayPc[p] = "poll"
    /\ ~StackLocked(p)
    /\ msg_stack_queue[p] = <<>>
    /\ UNCHANGED <<regVars, fabVars>>

\* filter task of peer p within one interval: it sleeps after Err(Empty) and
\* Ok(_), and loops at once after a push
TimedFilter(p) ==
    /\ <<"filter", p>> \notin asleep
    /\ \/ /\ FilterPoll(p)
          /\ IF filterPc'[p] = "poll"
             THEN Sleep(<<"filter", p>>) ELSE UNCHANGED asleep
       \/ FilterLock(p) /\ UNCHANGED asleep
       \/ FilterPush(p) /\ UNCHANGED asleep
       \/ FilterIdle(p) /\ Sleep(<<"filter", p>>)
    /\ UNCHANGED age

\* relay task of peer p within one interval, its try_lock succeeding: it
\* sleeps at the end of every iteration
TimedRelay(p) ==
    /\ <<"relay", p>> \notin asleep
    /\ \/ RelayPop(p) /\ UNCHANGED asleep
       \/ ~QueueLocked(p) /\ RelayForward(p) /\ Sleep(<<"relay", p>>)
       \/ RelayIdle(p) /\ Sleep(<<"relay", p>>)
    /\ UNCHANGED age

\* the pending recv() of peer p within one interval: it sleeps when the
\* queue is empty, and is called again at once when it returned a message
TimedRecv(p) ==
    /\ <<"recv", p>> \notin asleep
    /\ \/ RecvTryLock(p) /\ UNCHANGED asleep
       \/ /\ RecvPop(p)
          /\ IF received'[p] = received[p]
             THEN Sleep(<<"recv", p>>) ELSE UNCHANGED asleep
    /\ UNCHANGED age

\* one poll interval ends: every loop has slept and wakes, and every message
\* still under way is one interval older
Tick ==
    /\ asleep = Tasks
    /\ asleep' = {}
    /\ age' = [k \in DOMAIN age |->
                IF Delivered(k) \/ age[k] > 5 THEN age[k] ELSE age[k] + 1]
    /\ UNCHANGED <<regVars, fabVars>>

(* ============================ specifications =========================== *)

PushStep == \E id \in Transactions, variant \in OpVariants : Push(id, variant)

PopStep == \E c \in Callers, id \in Transactions : Pop(c, id)

Init == RegInit /\ FabInit /\ TimeInit

Next ==
    \/ PushStep /\ UNCHANGED timeVars
    \/ PopStep /\ UNCHANGED timeVars

Spec == Init /\ [][Next]_vars

\* the calls and tasks of the fabric; NETWORK_WIRES keeps both ends of the
\* channel, so the channel stays open
FabricNext ==
    \/ SendStep /\ UNCHANGED timeVars
    \/ \E p \in Peers : FilterStep(p) /\ UNCHANGED timeVars
    \/ \E p \in Peers : RelayStep(p) /\ UNCHANGED timeVars
    \/ \E p \in Peers : RecvStep(p) /\ UNCHANGED timeVars

FabricSpec == Init /\ [][FabricNext]_vars

\* the fabric with a channel that can be closed for good
ClosingNext == FabricNext \/ (Disconnect /\ UNCHANGED timeVars)

ClosingFabric == Init /\ [][ClosingNext]_vars

\* the open fabric with every polling task and every pending recv() scheduled
FairFabric ==
    /\ Init
    /\ [][FabricNext]_vars
    /\ \A p \in Peers : WF_vars(FilterStep(p) /\ UNCHANGED timeVars)
    /\ \A p \in Peers : WF_vars(RelayStep(p) /\ UNCHANGED timeVars)
    /\ \A p \in Peers : WF_vars(RecvStep(p) /\ UNCHANGED timeVars)

\* the open fabric with every polling loop run once per poll interval and no
\* failed try_lock
TimedNext ==
    \/ TimedSend
    \/ \E p \in Peers : TimedFilter(p)
    \/ \E p \in Peers : TimedRelay(p)
    \/ \E p \in Peers : TimedRecv(p)
    \/ Tick

TimedFabric == Init /\ [][TimedNext]_vars

(* ============================ registry claims ========================== *)

StorableKinds == {"JoinRing", "Put", "Get"}

\* C1: push(id, op) returns Err(IncorrectTxType) for every combination of
\* id.kind and Operation variant in which the kind disagrees with the variant.
PushRejectsEveryMismatch ==
    (res.call = "push" /\ tx_type(res.id) # res.op.variant)
        => res.ret.tag = "IncorrectTxType"

\* C2: isolation. For distinct transactions t1, t2 of different kinds among
\* JoinRing, Put, Get and operations A, B of the matching variants,
\* push(t1, A) then push(t2, B) both succeed, and then pop(t1) returns
\* exactly A and pop(t2) returns exactly B.
IsolationOfDistinctKinds ==
    ( /\ prev.call = "push" /\ res.call = "push"
      /\ prev.id # res.id
      /\ tx_type(prev.id) # tx_type(res.id)
      /\ tx_type(prev.id) \in StorableKinds /\ tx_type(res.id) \in StorableKinds
      /\ prev.op.variant = tx_type(prev.id)
      /\ res.op.variant = tx_type(res.id) )
    => ( /\ prev.ret.tag = "Ok"
         /\ res.ret.tag = "Ok"
         /\ pop_ret(Registry, prev.id).tag = "Some"
         /\ pop_ret(Registry, prev.id).op = prev.op
         /\ pop_ret(pop_reg(Registry, prev.id), res.id).tag = "Some"
         /\ pop_ret(pop_reg(Registry, prev.id), res.id).op = res.op )

\* C6: when two callers pop the same id for which one Operation is stored,
\* with no push in between, exactly one of the two pops returns the stored
\* Operation and the other returns absent; and no Operation instance is ever
\* returned by two pops.
ConcurrentPopExactlyOne ==
    /\ \A i \in 1..MaxOps : yieldCount[i] <= 1
    /\ ( /\ prev.call = "pop" /\ res.call = "pop"
         /\ prev.id = res.id
         /\ prev.caller # res.caller
         /\ Cardinality(prev.before) = 1 )
       => \E o \in prev.before :
            \/ prev.ret.tag = "Some" /\ prev.ret.op = o /\ res.ret.tag = "None"
            \/ res.ret.tag = "Some" /\ res.ret.op = o /\ prev.ret.tag = "None"

\* C7: the registry holds at most one Operation per Transaction: no
\* Transaction is a key of more than one of the maps join_ring, put, get.
AtMostOneOperationPerTransaction ==
    \A t \in Transactions : Cardinality(StoredFor(t)) <= 1

\* C8: every stored entry is keyed by a Transaction whose kind equals the
\* variant of the stored Operation, so pop with that id retrieves it.
StoredKindMatchesVariant ==
    /\ \A t \in DOMAIN join_ring : tx_type(t) = "JoinRing"
    /\ \A t \in DOMAIN put : tx_type(t) = "Put"
    /\ \A t \in DOMAIN get : tx_type(t) = "Get"
    /\ \A t \in Transactions : \A o \in StoredFor(t) :
          pop_ret(Registry, t).tag = "Some" /\ pop_ret(Registry, t).op.variant = o.variant

\* C9 as stated: pop(id) on an id never pushed, or already popped, returns
\* absent without error or abort and leaves the registry unchanged.
PopAbsentNeverAborts ==
    [][ (res'.call = "pop" /\ ~res'.wasLive)
            => (res'.ret.tag = "None" /\ Registry' = Registry) ]_vars

\* C9 amended: pop(id) on an id of kind JoinRing, Put or Get that was never
\* pushed, or was already popped, returns absent and leaves the registry
\* unchanged.
PopAbsentStorableKind ==
    [][ (res'.call = "pop" /\ ~res'.wasLive /\ tx_type(res'.id) \in StorableKinds)
            => (res'.ret.tag = "None" /\ Registry' = Registry) ]_vars

\* C9 witness: an id is popped a second time, after a pop that returned its
\* Operation, while other entries are still stored.
PopAbsentWitness ==
    /\ prev.call = "pop" /\ prev.ret.tag = "Some"
    /\ res.call = "pop" /\ res.id = prev.id
    /\ ~res.wasLive
    /\ res.ret.tag = "None"
    /\ DOMAIN join_ring \cup DOMAIN put \cup DOMAIN get # {}


\* C11: a successful push(id, op2) when an entry op1 already exists for the
\* same id replaces it: the next pop(id) returns op2 and a second pop(id)
\* returns absent, so op1 is never returned.
PushReplacesPriorEntry ==
    (res.call = "push" /\ res.ret.tag = "Ok" /\ res.before # {})
    => ( /\ pop_ret(Registry, res.id).tag = "Some"
         /\ pop_ret(Registry, res.id).op = res.op
         /\ pop_ret(pop_reg(Registry, res.id), res.id).tag = "None"
         /\ StoredFor(res.id) = {res.op} )

\* the keys of the three maps
StoredKeys == DOMAIN join_ring \cup DOMAIN put \cup DOMAIN get

\* C12: pop(id) with a Canceled-kind id aborts in every registry state, it
\* never returns absent or an Operation; and push with a Canceled-kind id
\* never stores an entry.
CanceledFailsFast ==
    /\ (res.call = "pop" /\ tx_type(res.id) = "Canceled") => res.ret.tag = "Panic"
    /\ (res.call = "push" /\ tx_type(res.id) = "Canceled") => res.ret.tag # "Ok"
    /\ \A t \in StoredKeys : tx_type(t) # "Canceled"

\* C12 witness: a Canceled-kind id has been popped from a registry that
\* holds entries, after a push under a Canceled-kind id.
CanceledFailsFastWitness ==
    /\ res.call = "pop" /\ tx_type(res.id) = "Canceled"
    /\ res.ret.tag = "Panic"
    /\ prev.call = "push" /\ tx_type(prev.id) = "Canceled"
    /\ StoredKeys # {}

\* C18: whenever push(id, op) fails, the error is
\* IncorrectTxType(expected, actual) with expected the kind of op's variant
\* and actual the kind of id.
PushErrorNamesExpectedKind ==
    (res.call = "push" /\ res.ret.tag # "Ok")
    => ( /\ res.ret.tag = "IncorrectTxType"
         /\ res.ret.expected = res.op.variant
         /\ res.ret.actual = tx_type(res.id) )

\* C19: a push that returns Err(IncorrectTxType) leaves the three maps as
\* they were, and a successful push(id, op) or pop(id) changes no entry
\* stored under another Transaction.
PushPopFrame ==
    [][ /\ (res'.call = "push" /\ res'.ret.tag # "Ok") => Registry' = Registry
        /\ res'.call \in {"push", "pop"}
             => \A t \in Transactions \ {res'.id} : StoredFor(t)' = StoredFor(t) ]_vars

\* C19 witness: a push has failed while an entry pushed before it is stored
\* under another Transaction.
PushPopFrameWitness ==
    /\ res.call = "push" /\ res.ret.tag = "IncorrectTxType"
    /\ prev.call = "push" /\ prev.ret.tag = "Ok"
    /\ StoredKeys \ {res.id} # {}

(* ============================= fabric claims =========================== *)

\* the peer the send that carried Message m addressed
AddressedTo(m) == sent[m.payload].target

\* C3: every message a peer sends to a target with a known location is
\* eventually returned by recv() on the target, with the same transaction
\* id, kind and payload, when the target keeps calling recv() and every
\* background task is scheduled fairly.
RoundTripDelivery ==
    \A k \in 1..MaxSends :
        (Len(sent) >= k)
            ~> (Len(sent) >= k /\ sent[k].msg \in Elems(received[sent[k].target]))

\* C4: a message addressed to peer Y is never in the private inbound queue
\* or the recv queue of, nor returned by recv() on, a peer Z # Y; the sets of
\* messages received by different peers are pairwise disjoint.
NoCrossDelivery ==
    /\ \A p \in Peers :
        /\ filterPc[p] \in {"push", "locked"} => filterMsg[p].target = p
        /\ \A e \in Elems(msg_stack_queue[p]) : e.target = p
        /\ relayPc[p] = "have" => relayMsg[p].target = p
        /\ \A m \in Elems(msg_queue[p]) : AddressedTo(m) = p
        /\ \A m \in Elems(received[p]) : AddressedTo(m) = p
    /\ \A p, q \in Peers :
        p # q => Elems(received[p]) \cap Elems(received[q]) = {}

\* C4 witness: two peers have each received a message while a third ran.
NoCrossDeliveryWitness ==
    /\ NumPeers >= 3
    /\ \E y, z \in Peers : y # z /\ received[y] # <<>> /\ received[z] # <<>>

\* C5: send(target, msg) with target.location = None returns
\* Err(LocationUnknown) and leaves the fabric unchanged: no envelope is put
\* on the network channel and no queue of any peer changes.
SendUnknownLocationNoEffect ==
    [][ \A x \in Senders, target \in PeerKeyLocations, tx \in Transactions :
            (Send(x, target, tx) /\ target.location = NoLocation)
                => /\ sendRes'.ret = "LocationUnknown"
                   /\ UNCHANGED <<network, msg_stack_queue, msg_queue,
                                  filterMsg, relayMsg, received>> ]_vars

\* C5 witness: a send without a location has failed while an earlier
\* envelope is on the network channel.
SendUnknownLocationWitness ==
    /\ sendRes.ret = "LocationUnknown"
    /\ network # <<>>
    /\ Len(sent) = Len(network)

\* C10: send with a known target location returns an error whenever the
\* shared channel is closed or reports its capacity exceeded, and never
\* returns Ok(()) when the envelope was not put on the fabric.
SendFailsWhenNotEnqueued ==
    /\ sendRes.wire \in {"Disconnected", "Full"} => sendRes.ret = "TransportError"
    /\ sendRes.ret = "Ok" => sendRes.enqueued

\* C14: the relay task never loses a message: an envelope it has removed
\* from msg_stack_queue is, when its step ends, in the queue recv() consumes
\* or back in msg_stack_queue for a later poll, also when its try-lock on
\* the recv queue fails.
RelayNeverLoses ==
    [][ \A p \in Peers :
            (relayPc[p] = "have" /\ relayPc'[p] = "poll")
                => \/ deserialize(relayMsg[p].data) \in Elems(msg_queue'[p])
                   \/ relayMsg[p] \in Elems(msg_stack_queue'[p]) ]_vars

\* the relay task of peer p is at msg_stack_queue.lock() while the filter
\* task holds that mutex
RelayWaits(p) == relayPc[p] = "poll" /\ StackLocked(p)

\* C15: every lock acquisition on a polling path is a try-acquisition: no
\* polling task is ever in a state where it waits for a lock another task
\* holds.
NoTaskWaitsForLock == \A p \in Peers : ~RelayWaits(p)

\* the envelope that send number k put on the network channel
EnvelopeOf(k) ==
    MessageOnTransit(CHOOSE x \in Senders : TRUE, CHOOSE l \in Locations : TRUE,
                     sent[k].target, serialize(sent[k].msg))

\* C16: a filter task that takes an envelope whose target is another peer
\* discards it: the envelope leaves the network channel, is not put back,
\* and reaches no queue or hand of this peer; only envelopes whose target is
\* this peer are appended to its msg_stack_queue.
FilterDiscardsForeign ==
    [][ \A p \in Peers :
          /\ (FilterPoll(p) /\ network # <<>> /\ Head(network).target # p)
                => /\ network' = Tail(network)
                   /\ filterPc'[p] = "poll"
                   /\ UNCHANGED <<msg_stack_queue, msg_queue, filterMsg,
                                  relayMsg, received>>
          /\ \A i \in DOMAIN msg_stack_queue'[p] :
                i > Len(msg_stack_queue[p])
                    => msg_stack_queue'[p][i].target = p ]_vars

\* C16 witness: the filter task of y still holds the first envelope for y,
\* and the second envelope for y, which only another peer's filter task can
\* have taken, is gone from the channel and from every queue of y.
FilterDiscardsForeignWitness ==
    \E y \in Peers :
        /\ Len(sent) = 2 /\ sent[1].target = y /\ sent[2].target = y
        /\ filterPc[y] \in {"push", "locked"} /\ filterMsg[y] = EnvelopeOf(1)
        /\ network = <<>>
        /\ msg_stack_queue[y] = <<>> /\ relayPc[y] = "poll"
        /\ msg_queue[y] = <<>> /\ received[y] = <<>>

\* C17: on Disconnected the filter task leaves its loop and the other tasks
\* run on; a stopped filter task stays stopped and takes no envelope, the
\* channel being closed and empty for good; on an empty channel or an
\* envelope, for this peer or another, the filter task keeps polling.
FilterStopsOnlyOnDisconnected ==
    [][ \A p \in Peers :
          /\ filterPc[p] = "stopped"
                => /\ filterPc'[p] = "stopped"
                   /\ netClosed /\ network = <<>> /\ network' = <<>>
          /\ (FilterPoll(p) /\ try_recv(network, netClosed) = "Disconnected")
                => /\ filterPc'[p] = "stopped"
                   /\ UNCHANGED <<relayPc, recvPc, msg_stack_queue, msg_queue>>
                   /\ \A q \in Peers \ {p} : filterPc'[q] = filterPc[q]
          /\ (filterPc[p] # "stopped"
                /\ try_recv(network, netClosed) # "Disconnected")
                => filterPc'[p] # "stopped" ]_vars

\* C17 witness: one filter task has stopped on the closed channel while
\* another has not polled since and a message has been received.
FilterStopsWitness ==
    \E p, q \in Peers :
        /\ filterPc[p] = "stopped" /\ filterPc[q] = "poll"
        /\ \E r \in Peers : received[r] # <<>>

\* the number of times recv() has returned Message m, over all peers
TimesReturned(m) ==
    Cardinality({<<p, i>> \in Peers \X (1..MaxSends) :
                    i \in DOMAIN received[p] /\ received[p][i] = m})

\* C20: each envelope one send() enqueued is returned by recv() at most
\* once in total, over all peers and all holders of a peer's queues, under
\* every interleaving of filter tasks, relay tasks and recv callers. The
\* recv() callers of one peer, clones included, share one msg_queue mutex,
\* so recvPc[p] stands for whichever of them holds it.
NoDuplicateDelivery ==
    /\ \A k \in DOMAIN sent : TimesReturned(sent[k].msg) <= 1
    /\ \A p \in Peers : Len(received[p]) <= Len(sent)

\* C20 witness: one peer has been returned two different messages.
NoDuplicateDeliveryWitness ==
    \E p \in Peers :
        /\ Len(received[p]) = 2
        /\ received[p][1] # received[p][2]

\* C13: bounded response. With no failed try-lock and every polling loop run
\* once per poll interval, a message sent to peer Y is returned by Y's
\* pending recv() within at most 5 poll intervals after the send.
BoundedResponse == \A k \in DOMAIN age : age[k] <= 5

====
